---- MODULE Spec2Model ----
(***************************************************************************)
(* Model of the Vibe Kanban executor (src/src/vk_executor.py) and of its   *)
(* command-line entrypoint (src/src/entrypoint.py).                         *)
(*                                                                         *)
(* JSON values are tagged records, so that the type tests of the code      *)
(* (isinstance, "key in dict") are decidable in the model:                 *)
(*   [str |-> "x"]   a string          [list |-> <<...>>]  a list           *)
(*   [dict |-> f]    an object, f a function from its keys to JSON values   *)
(*   [num |-> n]     a number          [none |-> TRUE]     None / null      *)
(*   [bool |-> b]    true / false                                           *)
(*   [fstr |-> <<...>>]  a string built by an f-string, kept as its parts   *)
(***************************************************************************)
EXTENDS Integers, Sequences, FiniteSets, TLC

VARIABLES
    pc,                 \* position of the caller (validate / plan / execute loop / report)
    manifest,           \* the manifest the run works on (a dict: key -> JSON value)
    errors,             \* the list validate_manifest returned
    plan,               \* the dict plan_execution returned
    step_i,             \* execute_plan: index of the step the for-loop is at
    results,            \* execute_plan: results
    title_to_task_id,   \* execute_plan: title_to_task_id
    calls,              \* the client method calls issued so far, in order
    outcomes,           \* what the channel did to the most recent call (<<>> before the first)
    client,             \* VKMcpClient fields: _process, _initialized, _next_id
    wire,               \* what the client did to the server process and its pipes, in order
    project_id,         \* the project_id argument of execute_plan
    report,             \* the dict build_execution_report returned
    inputs,             \* entrypoint: len(sys.argv) and the task data read from the input file
    exit_code           \* entrypoint: the exit code of the process, once it has ended

\* the state of one execute_plan call and of the client it drives
execVars == <<step_i, results, title_to_task_id, calls, outcomes, client, wire>>

\* the state only the entrypoint has
mainVars == <<inputs, exit_code>>

vars == <<pc, manifest, errors, plan, step_i, results, title_to_task_id,
          calls, outcomes, client, wire, project_id, report, inputs, exit_code>>

----------------------------------------------------------------------------
(* Bounds of the model *)

\* the longest plan (2 * tasks + subtasks) an execution is run on
MaxSteps == 4

\* the largest manifest (2 * tasks + subtasks) validate and plan are applied to
MaxSize == 5

\* the number of operations (calls and close) a caller performs on one client
MaxOps == 4

----------------------------------------------------------------------------
(* JSON values *)

Str(s) == [str |-> s]

List(q) == [list |-> q]

Dict(f) == [dict |-> f]

Num(n) == [num |-> n]

None == [none |-> TRUE]

Bool(b) == [bool |-> b]

IsStr(v) == DOMAIN v = {"str"}

IsList(v) == DOMAIN v = {"list"}

IsDict(v) == DOMAIN v = {"dict"}

\* bool(v) of a JSON value
Truthy(v) ==
    IF IsStr(v) THEN v.str # ""
    ELSE IF IsList(v) THEN Len(v.list) > 0
    ELSE IF IsDict(v) THEN DOMAIN v.dict # {}
    ELSE IF DOMAIN v = {"num"} THEN v.num # 0
    ELSE IF DOMAIN v = {"bool"} THEN v.bool
    ELSE FALSE

\* list and dict values cannot be hashed: `v in a_set` raises TypeError on them
Unhashable(v) == IsList(v) \/ IsDict(v)

\* the empty dict {}
EmptyDict == [k \in {} |-> None]

\* dict.get(key, default) on the key -> value function d
DictGet(d, key, default) == IF key \in DOMAIN d THEN d[key] ELSE default

\* d[key] = value on the key -> value function d (insert or overwrite)
DictSet(d, key, value) ==
    [k \in DOMAIN d \cup {key} |-> IF k = key THEN value ELSE d[k]]

----------------------------------------------------------------------------
(* Constants of vk_executor.py *)

VALID_EXECUTORS ==
    {"claude-code", "codex", "gemini", "amp", "copilot",
     "cursor_agent", "qwen-code", "droid", "opencode"}

VALID_PRIORITIES == {"Urgent", "High", "Medium", "Low"}

REQUIRED_MANIFEST_KEYS == {"version", "tasks", "project"}

\* the orders in which iterating the set REQUIRED_MANIFEST_KEYS may yield its
\* members (string hashing is randomised per process)
KeyOrders ==
    {o \in [1..Cardinality(REQUIRED_MANIFEST_KEYS) -> REQUIRED_MANIFEST_KEYS] :
        \A a, b \in DOMAIN o : a # b => o[a] # o[b]}

----------------------------------------------------------------------------
(* validate_manifest *)

\* faulty variant of TaskErrors: the checks of a task are chained with elif, so
\* only its first violation is reported
TaskErrors_FirstOnly(task, i) ==
    IF ~IsDict(task)
    THEN <<[msg |-> "Task is not a dict", index |-> i - 1]>>
    ELSE IF "title" \notin DOMAIN task.dict
    THEN <<[msg |-> "Task missing required key", index |-> i - 1, key |-> "title"]>>
    ELSE IF "executor" \in DOMAIN task.dict
            /\ ~(IsStr(task.dict["executor"]) /\ task.dict["executor"].str \in VALID_EXECUTORS)
    THEN <<[msg |-> "Task has invalid executor", index |-> i - 1,
            value |-> task.dict["executor"], allowed |-> VALID_EXECUTORS]>>
    ELSE IF "priority" \in DOMAIN task.dict
            /\ ~(IsStr(task.dict["priority"]) /\ task.dict["priority"].str \in VALID_PRIORITIES)
    THEN <<[msg |-> "Task has invalid priority", index |-> i - 1,
            value |-> task.dict["priority"], allowed |-> VALID_PRIORITIES]>>
    ELSE <<>>

\* the messages validate_manifest appends for tasks[i] (enumerate index i - 1)
TaskErrors(task, i) ==
    IF ~IsDict(task)
    THEN <<[msg |-> "Task is not a dict", index |-> i - 1]>>
    ELSE
        (IF "title" \notin DOMAIN task.dict
         THEN <<[msg |-> "Task missing required key", index |-> i - 1, key |-> "title"]>>
         ELSE <<>>)
        \o
        (IF "executor" \in DOMAIN task.dict
            /\ ~(IsStr(task.dict["executor"]) /\ task.dict["executor"].str \in VALID_EXECUTORS)
         THEN <<[msg |-> "Task has invalid executor", index |-> i - 1,
                 value |-> task.dict["executor"], allowed |-> VALID_EXECUTORS]>>
         ELSE <<>>)
        \o
        (IF "priority" \in DOMAIN task.dict
            /\ ~(IsStr(task.dict["priority"]) /\ task.dict["priority"].str \in VALID_PRIORITIES)
         THEN <<[msg |-> "Task has invalid priority", index |-> i - 1,
                 value |-> task.dict["priority"], allowed |-> VALID_PRIORITIES]>>
         ELSE <<>>)

RECURSIVE TasksErrors(_, _)
\* the loop over enumerate(tasks), from index i on
TasksErrors(tasks, i) ==
    IF i > Len(tasks) THEN <<>>
    ELSE TaskErrors(tasks[i], i) \o TasksErrors(tasks, i + 1)

RECURSIVE MissingKeyErrors(_, _, _)
\* faulty variant of MissingKeyErrors: the loop stops at the first missing key
MissingKeyErrors_FirstOnly(m, order, j) ==
    IF j > Len(order) THEN <<>>
    ELSE IF order[j] \notin DOMAIN m
         THEN <<[msg |-> "Missing required key", key |-> order[j]]>>
         ELSE MissingKeyErrors(m, order, j + 1)

\* the loop over REQUIRED_MANIFEST_KEYS, in iteration order `order`, from j on
MissingKeyErrors(m, order, j) ==
    IF j > Len(order) THEN <<>>
    ELSE (IF order[j] \notin DOMAIN m
          THEN <<[msg |-> "Missing required key", key |-> order[j]]>>
          ELSE <<>>)
         \o MissingKeyErrors(m, order, j + 1)

\* the membership tests of the loop body raise TypeError (unhashable type) for
\* task: `task["executor"] not in VALID_EXECUTORS`, `task["priority"] not in
\* VALID_PRIORITIES`
TaskRaises(task) ==
    IF ~IsDict(task) THEN FALSE
    ELSE IF "executor" \in DOMAIN task.dict
    THEN IF Unhashable(task.dict["executor"]) THEN TRUE
         ELSE IF "priority" \in DOMAIN task.dict
              THEN Unhashable(task.dict["priority"])
              ELSE FALSE
    ELSE IF "priority" \in DOMAIN task.dict
         THEN Unhashable(task.dict["priority"])
         ELSE FALSE

\* validate_manifest raises instead of returning its list
ValidateRaises(m) ==
    IF "tasks" \notin DOMAIN m THEN FALSE
    ELSE IF ~IsList(m["tasks"]) THEN FALSE
    ELSE \E k \in 1..Len(m["tasks"].list) : TaskRaises(m["tasks"].list[k])

\* the list validate_manifest returns, when it returns
validate_manifest(m, order) ==
    MissingKeyErrors(m, order, 1)
    \o
    (IF "tasks" \in DOMAIN m
     THEN IF ~IsList(m["tasks"])
          THEN <<[msg |-> "'tasks' must be a list"]>>
          ELSE IF Len(m["tasks"].list) = 0
               THEN <<[msg |-> "No tasks found -- tasks list is empty"]>>
               ELSE TasksErrors(m["tasks"].list, 1)
     ELSE <<>>)

----------------------------------------------------------------------------
(* plan_execution *)

\* sub if isinstance(sub, str) else sub.get("title", "")
SubTitle(sub) == IF IsStr(sub) THEN sub ELSE DictGet(sub.dict, "title", Str(""))

\* faulty variant of SubtaskStep: a subtask gets the default priority and no tags,
\* whatever its parent declares
SubtaskStep_OwnDefaults(task, sub) ==
    [action |-> "create_task",
     title |-> SubTitle(sub),
     description |-> [fstr |-> <<"Subtask of: ", task["title"]>>],
     priority |-> Str("Medium"),
     tags |-> List(<<>>),
     parent_title |-> task["title"]]

\* the step appended for subtask `sub` of `task`
SubtaskStep(task, sub) ==
    [action |-> "create_task",
     title |-> SubTitle(sub),
     description |-> [fstr |-> <<"Subtask of: ", task["title"]>>],
     priority |-> DictGet(task, "priority", Str("Medium")),
     tags |-> DictGet(task, "tags", List(<<>>)),
     parent_title |-> task["title"]]

\* the steps.append calls of the loop over task.get("subtasks", [])
SubtaskSteps(task) ==
    LET subs == DictGet(task, "subtasks", List(<<>>)).list
    IN  [s \in 1..Len(subs) |-> SubtaskStep(task, subs[s])]

CreateTaskStep(task) ==
    [action |-> "create_task",
     title |-> task["title"],
     description |-> DictGet(task, "description", Str("")),
     priority |-> DictGet(task, "priority", Str("Medium")),
     tags |-> DictGet(task, "tags", List(<<>>)),
     parent_title |-> None]

\* faulty variant of StartWorkspaceStep: the manifest defaults are not consulted
StartWorkspaceStep_SkipsDefaults(task, defaults) ==
    [action |-> "start_workspace",
     title |-> task["title"],
     executor |-> DictGet(task, "executor", Str("claude-code")),
     repo |-> DictGet(task, "repo", Str("")),
     base_branch |-> DictGet(task, "base_branch", Str("main"))]

StartWorkspaceStep(task, defaults) ==
    [action |-> "start_workspace",
     title |-> task["title"],
     executor |-> DictGet(task, "executor", DictGet(defaults, "executor", Str("claude-code"))),
     repo |-> DictGet(task, "repo", DictGet(defaults, "repo", Str(""))),
     base_branch |-> DictGet(task, "base_branch", DictGet(defaults, "base_branch", Str("main")))]

\* faulty variant of TaskSteps: the workspace step is appended after the subtasks
TaskSteps_WorkspaceLast(task, defaults) ==
    <<CreateTaskStep(task)>> \o SubtaskSteps(task) \o <<StartWorkspaceStep(task, defaults)>>

\* one iteration of `for task in tasks`: the steps it appends
TaskSteps(task, defaults) ==
    <<CreateTaskStep(task), StartWorkspaceStep(task, defaults)>> \o SubtaskSteps(task)

RECURSIVE PlanLoop(_, _, _, _)
\* faulty variant of PlanLoop: total_subtasks counts the tasks that have subtasks
PlanLoop_CountsParents(tasks, defaults, k, acc) ==
    IF k > Len(tasks) THEN acc
    ELSE PlanLoop(tasks, defaults, k + 1,
            [steps |-> acc.steps \o TaskSteps(tasks[k].dict, defaults),
             total_subtasks |-> acc.total_subtasks
                + (IF Len(DictGet(tasks[k].dict, "subtasks", List(<<>>)).list) > 0
                   THEN 1 ELSE 0)])

\* `for task in tasks`, from task k on, with the steps and total_subtasks so far
PlanLoop(tasks, defaults, k, acc) ==
    IF k > Len(tasks) THEN acc
    ELSE PlanLoop(tasks, defaults, k + 1,
            [steps |-> acc.steps \o TaskSteps(tasks[k].dict, defaults),
             total_subtasks |-> acc.total_subtasks
                + Len(DictGet(tasks[k].dict, "subtasks", List(<<>>)).list)])

\* the loop over task.get("subtasks", []) raises: TypeError on iterating a
\* value that is not a list (a number, null), AttributeError on sub.get of an
\* entry that is neither a string nor a dict
SubtasksRaise(task) ==
    LET subs == DictGet(task, "subtasks", List(<<>>))
    IN  IF ~IsList(subs) THEN TRUE
        ELSE \E s \in 1..Len(subs.list) :
                ~IsStr(subs.list[s]) /\ ~IsDict(subs.list[s])

\* plan_execution raises (AttributeError on defaults.get of a non-dict,
\* TypeError on iterating a non-list, AttributeError on task.get of a
\* non-dict, KeyError on task["title"], or in the loop over the subtasks)
PlanRaises(m) ==
    LET tasks == DictGet(m, "tasks", List(<<>>))
        defaults == DictGet(m, "defaults", Dict(EmptyDict))
    IN  IF ~IsDict(defaults) THEN TRUE
        ELSE IF ~IsList(tasks) THEN TRUE
        ELSE \E k \in 1..Len(tasks.list) :
                IF ~IsDict(tasks.list[k]) THEN TRUE
                ELSE IF "title" \notin DOMAIN tasks.list[k].dict THEN TRUE
                ELSE SubtasksRaise(tasks.list[k].dict)

plan_execution(m) ==
    LET tasks == DictGet(m, "tasks", List(<<>>)).list
        defaults == DictGet(m, "defaults", Dict(EmptyDict)).dict
        out == PlanLoop(tasks, defaults, 1, [steps |-> <<>>, total_subtasks |-> 0])
    IN  [steps |-> out.steps,
         summary |->
            [total_tasks |-> Len(tasks),
             total_subtasks |-> out.total_subtasks,
             total_workspaces |->
                Cardinality({s \in 1..Len(out.steps) :
                                out.steps[s].action = "start_workspace"})]]

----------------------------------------------------------------------------
(* VKMcpClient *)

\* What the operating system and the server do during one _call_tool: the
\* kinds that raise or return without a payload.
\*   spawn_fails        subprocess.Popen raises
\*   init_write_fails   the write or flush of the initialize request raises
\*   notif_write_fails  the initialize request went out and a line was read,
\*                      the write or flush of the notification raises
\*   request_fails      the write or flush of the tools/call request raises
\*   eof                stdout.readline() returns "" (no response at all)
\*   bad_json           the response line, or result.content[0].text, is not JSON
\*   rpc_error          the envelope carries an error descriptor
ChannelKinds(c) ==
    {"request_fails", "eof", "bad_json", "rpc_error"}
    \cup (IF ~c.initialized THEN {"init_write_fails", "notif_write_fails"} ELSE {})
    \cup (IF ~c.initialized /\ c.process = "None" THEN {"spawn_fails"} ELSE {})

\* the JSON values the server may answer the n-th call with
Payloads(n) ==
    {Dict([issue_id |-> Str("t" \o ToString(n)), id |-> Str("x" \o ToString(n)),
           workspace_id |-> Str("w" \o ToString(n))]),
     Dict([id |-> Str("x" \o ToString(n))]),
     List(<<>>)}

\* the behaviours of the channel during the n-th call on client c
Behaviours(c, n) ==
    {[kind |-> k] : k \in ChannelKinds(c)}
    \cup {[kind |-> "text", payload |-> v] : v \in Payloads(n)}
    \cup {[kind |-> "result", payload |-> Dict([content |-> List(<<>>)])]}

\* subprocess.Popen returned: the server process runs
Spawned == [ev |-> "spawn"]

\* a line written to the server's stdin and flushed
Sent(method, id) == [ev |-> "send", method |-> method, id |-> id]

\* a line read from the server's stdout (stdout.readline() returned)
Received == [ev |-> "recv"]

\* faulty variant of EnsureInitialized: the client counts as initialized as soon
\* as the process runs, whatever became of the handshake
EnsureInitialized_MarksEarly(c, env) ==
    IF c.initialized THEN [client |-> c, raised |-> FALSE, sent |-> <<>>]
    ELSE IF c.process = "None" /\ env.kind = "spawn_fails"
    THEN [client |-> c, raised |-> TRUE, error |-> Str("FileNotFoundError"), sent |-> <<>>]
    ELSE LET spawn == IF c.process = "None" THEN <<Spawned>> ELSE <<>>
             c1 == [c EXCEPT !.process = "Popen", !.next_id = @ + 1, !.initialized = TRUE]
         IN  IF env.kind = "init_write_fails"
             THEN [client |-> c1, raised |-> TRUE, error |-> Str("BrokenPipeError"),
                   sent |-> spawn]
             ELSE IF env.kind = "notif_write_fails"
             THEN [client |-> c1, raised |-> TRUE, error |-> Str("BrokenPipeError"),
                   sent |-> spawn \o <<Sent("initialize", c.next_id), Received>>]
             ELSE [client |-> c1, raised |-> FALSE,
                   sent |-> spawn \o <<Sent("initialize", c.next_id), Received,
                                       Sent("notifications/initialized", 0)>>]

\* VKMcpClient._ensure_initialized under behaviour env: the client afterwards,
\* whether it raised, and what it did to the process and its pipes
EnsureInitialized(c, env) ==
    IF c.initialized THEN [client |-> c, raised |-> FALSE, sent |-> <<>>]
    ELSE IF c.process = "None" /\ env.kind = "spawn_fails"
    THEN [client |-> c, raised |-> TRUE, error |-> Str("FileNotFoundError"), sent |-> <<>>]
    ELSE LET spawn == IF c.process = "None" THEN <<Spawned>> ELSE <<>>
             c1 == [c EXCEPT !.process = "Popen", !.next_id = @ + 1]
         IN  IF env.kind = "init_write_fails"
             THEN [client |-> c1, raised |-> TRUE, error |-> Str("BrokenPipeError"),
                   sent |-> spawn]
             ELSE IF env.kind = "notif_write_fails"
             THEN [client |-> c1, raised |-> TRUE, error |-> Str("BrokenPipeError"),
                   sent |-> spawn \o <<Sent("initialize", c.next_id), Received>>]
             ELSE [client |-> [c1 EXCEPT !.initialized = TRUE], raised |-> FALSE,
                   sent |-> spawn \o <<Sent("initialize", c.next_id), Received,
                                       Sent("notifications/initialized", 0)>>]

\* the tools/call request line
Request(id, tool_name, arguments) ==
    [ev |-> "send", method |-> "tools/call", id |-> id,
     name |-> tool_name, arguments |-> arguments]

\* VKMcpClient._call_tool under behaviour env: the client afterwards, the
\* value returned or the exception raised, and what went over the pipes
CallTool(c, tool_name, arguments, env) ==
    LET init == EnsureInitialized(c, env)
        c2 == [init.client EXCEPT !.next_id = @ + 1]
        io == init.sent \o <<Request(init.client.next_id, tool_name, arguments), Received>>
    IN  IF init.raised THEN init
        ELSE IF c2.process = "None"
        THEN [client |-> c2, raised |-> TRUE, error |-> Str("AttributeError"),
              sent |-> init.sent]
        ELSE IF env.kind = "request_fails"
        THEN [client |-> c2, raised |-> TRUE, error |-> Str("BrokenPipeError"),
              sent |-> init.sent]
        ELSE IF env.kind = "eof"
        THEN [client |-> c2, raised |-> FALSE, value |-> Dict(EmptyDict), sent |-> io]
        ELSE IF env.kind = "bad_json"
        THEN [client |-> c2, raised |-> TRUE, error |-> Str("JSONDecodeError"), sent |-> io]
        ELSE IF env.kind = "rpc_error"
        THEN [client |-> c2, raised |-> TRUE,
              error |-> [fstr |-> <<"MCP error: ", Str("message")>>], sent |-> io]
        ELSE [client |-> c2, raised |-> FALSE, value |-> env.payload, sent |-> io]

\* VKMcpClient.create_task
create_task(c, project, title, description, env) ==
    CallTool(c, "create_issue",
             [project_id |-> project, title |-> title, description |-> description],
             env)

\* s.upper(), on the executor names
Upper(s) ==
    CASE s = "claude-code" -> "CLAUDE-CODE"
      [] s = "codex" -> "CODEX"
      [] s = "gemini" -> "GEMINI"
      [] s = "amp" -> "AMP"
      [] s = "copilot" -> "COPILOT"
      [] s = "cursor_agent" -> "CURSOR_AGENT"
      [] s = "qwen-code" -> "QWEN-CODE"
      [] s = "droid" -> "DROID"
      [] s = "opencode" -> "OPENCODE"
      [] s = "bad-bot" -> "BAD-BOT"
      [] OTHER -> s

\* faulty variant of WorkspaceArgs: issue_id is always part of the request
WorkspaceArgs_AlwaysLinks(task_id, title, executor, repo_id, base_branch) ==
    [issue_id |-> task_id,
     title |-> title,
     executor |-> Str(Upper(executor.str)),
     repos |-> IF Truthy(repo_id)
               THEN List(<<Dict([repo_id |-> repo_id, base_branch |-> base_branch])>>)
               ELSE List(<<>>)]

\* the args dict start_workspace builds
WorkspaceArgs(task_id, title, executor, repo_id, base_branch) ==
    LET args == [title |-> title,
                 executor |-> Str(Upper(executor.str)),
                 repos |-> IF Truthy(repo_id)
                           THEN List(<<Dict([repo_id |-> repo_id,
                                             base_branch |-> base_branch])>>)
                           ELSE List(<<>>)]
    IN  IF Truthy(task_id) THEN [issue_id |-> task_id] @@ args ELSE args

\* VKMcpClient.start_workspace (executor.upper() raises AttributeError on an
\* executor that is not a string)
start_workspace(c, task_id, title, executor, repo_id, base_branch, env) ==
    IF ~IsStr(executor)
    THEN [client |-> c, raised |-> TRUE, error |-> Str("AttributeError"), sent |-> <<>>]
    ELSE CallTool(c, "start_workspace_session",
                  WorkspaceArgs(task_id, title, executor, repo_id, base_branch), env)

\* faulty variant of CloseClient: close() also forgets the handshake
CloseClient_Resets(c) == [c EXCEPT !.process = "None", !.initialized = FALSE]

\* VKMcpClient.close
CloseClient(c) == [c EXCEPT !.process = "None"]

\* what close() does to the server process: terminate() when there is one
Closed(c) == [ev |-> "close", terminated |-> c.process # "None"]

----------------------------------------------------------------------------
(* execute_plan *)

\* resp.get("issue_id", resp.get("id", ""))
TaskIdOf(resp) == DictGet(resp.dict, "issue_id", DictGet(resp.dict, "id", Str("")))

\* title_to_task_id.get(step["title"], "")
LookupTaskId(table, title) == DictGet(table, title, Str(""))

\* the except branch: the result appended for a step whose try block raised
ErrorResult(step, error) ==
    [action |-> step.action, title |-> step.title, status |-> "error", error |-> error]

\* faulty variant of CreateTaskBranch: an identifier already in the table is kept
CreateTaskBranch_FirstWriterWins(step, table, r) ==
    IF r.raised
    THEN [result |-> ErrorResult(step, r.error), table |-> table]
    ELSE IF ~IsDict(r.value)
    THEN [result |-> ErrorResult(step, Str("AttributeError")), table |-> table]
    ELSE IF Unhashable(step.title)
    THEN [result |-> ErrorResult(step, Str("TypeError")), table |-> table]
    ELSE [result |-> [action |-> step.action, title |-> step.title,
                      status |-> "success", task_id |-> TaskIdOf(r.value),
                      detail |-> r.value],
          table |-> IF step.title \in DOMAIN table THEN table
                    ELSE DictSet(table, step.title, TaskIdOf(r.value))]

\* the try block of a create_task step after client.create_task came back as r:
\* the result appended and the table afterwards (resp.get raises on a response
\* that is not a dict, the table write on a title that cannot be hashed)
CreateTaskBranch(step, table, r) ==
    IF r.raised
    THEN [result |-> ErrorResult(step, r.error), table |-> table]
    ELSE IF ~IsDict(r.value)
    THEN [result |-> ErrorResult(step, Str("AttributeError")), table |-> table]
    ELSE IF Unhashable(step.title)
    THEN [result |-> ErrorResult(step, Str("TypeError")), table |-> table]
    ELSE [result |-> [action |-> step.action, title |-> step.title,
                      status |-> "success", task_id |-> TaskIdOf(r.value),
                      detail |-> r.value],
          table |-> DictSet(table, step.title, TaskIdOf(r.value))]

\* faulty variant of StartWorkspaceBranch: a workspace without a task identifier is
\* reported as failed
StartWorkspaceBranch_RequiresTask(step, task_id, r) ==
    IF r.raised \/ task_id = Str("")
    THEN ErrorResult(step, Str("no task"))
    ELSE IF ~IsDict(r.value)
    THEN ErrorResult(step, Str("AttributeError"))
    ELSE [action |-> step.action, title |-> step.title, status |-> "success",
          task_id |-> task_id,
          workspace_id |-> DictGet(r.value.dict, "workspace_id", Str("")),
          executor |-> step.executor, detail |-> r.value]

\* the try block of a start_workspace step after client.start_workspace came
\* back as r: the result appended
StartWorkspaceBranch(step, task_id, r) ==
    IF r.raised
    THEN ErrorResult(step, r.error)
    ELSE IF ~IsDict(r.value)
    THEN ErrorResult(step, Str("AttributeError"))
    ELSE [action |-> step.action, title |-> step.title, status |-> "success",
          task_id |-> task_id,
          workspace_id |-> DictGet(r.value.dict, "workspace_id", Str("")),
          executor |-> step.executor, detail |-> r.value]

\* faulty variant of AppendResult: the except branch appends nothing
AppendResult_DropsErrors(rs, result) ==
    IF result.status = "error" THEN rs ELSE Append(rs, result)

\* results.append(result)
AppendResult(rs, result) == Append(rs, result)

\* faulty variant of AfterStep: the loop returns at the first failed step
AfterStep_StopsOnError(steps, i, result) ==
    IF i < Len(steps) /\ result.status # "error" THEN "executing" ELSE "executed"

\* where the for-loop stands after the body ran for step i and appended
\* `result`: at the next step whatever the result, or past the last step with
\* the results returned
AfterStep(steps, i, result) == IF i < Len(steps) THEN "executing" ELSE "executed"

\* the loop body for a create_task step
ExecCreateTask ==
    /\ pc = "executing"
    /\ step_i \in 1..Len(plan.steps)
    /\ plan.steps[step_i].action = "create_task"
    /\ \E env \in Behaviours(client, Len(calls) + 1) :
        LET step == plan.steps[step_i]
            r == create_task(client, project_id, step.title, step.description, env)
            out == CreateTaskBranch(step, title_to_task_id, r)
        IN  /\ calls' = Append(calls,
                    [method |-> "create_task", step |-> step_i,
                     returned |-> Len(results),
                     project_id |-> project_id, title |-> step.title,
                     description |-> step.description])
            /\ outcomes' = <<env>>
            /\ client' = r.client
            /\ wire' = wire \o r.sent
            /\ results' = AppendResult(results, out.result)
            /\ title_to_task_id' = out.table
            /\ pc' = AfterStep(plan.steps, step_i, out.result)
    /\ step_i' = step_i + 1
    /\ UNCHANGED <<manifest, errors, plan, project_id, report, mainVars>>

\* the loop body for a start_workspace step; the table lookup of line 276 is
\* outside the try block, and on a title that cannot be hashed its TypeError
\* ends execute_plan
ExecStartWorkspace ==
    /\ pc = "executing"
    /\ step_i \in 1..Len(plan.steps)
    /\ plan.steps[step_i].action = "start_workspace"
    /\ IF Unhashable(plan.steps[step_i].title)
       THEN /\ pc' = "execute_raised"
            /\ UNCHANGED <<step_i, results, calls, outcomes, client, wire>>
       ELSE /\ \E env \in Behaviours(client, Len(calls) + 1) :
                LET step == plan.steps[step_i]
                    task_id == LookupTaskId(title_to_task_id, step.title)
                    r == start_workspace(client, task_id, step.title, step.executor,
                                         DictGet(step, "repo", Str("")),
                                         DictGet(step, "base_branch", Str("main")), env)
                IN  /\ calls' = Append(calls,
                            [method |-> "start_workspace", step |-> step_i,
                             returned |-> Len(results),
                             task_id |-> task_id, title |-> step.title,
                             executor |-> step.executor,
                             repo_id |-> DictGet(step, "repo", Str("")),
                             base_branch |-> DictGet(step, "base_branch", Str("main"))])
                    /\ outcomes' = <<env>>
                    /\ client' = r.client
                    /\ wire' = wire \o r.sent
                    /\ results' = AppendResult(results, StartWorkspaceBranch(step, task_id, r))
                    /\ pc' = AfterStep(plan.steps, step_i,
                                       StartWorkspaceBranch(step, task_id, r))
            /\ step_i' = step_i + 1
    /\ UNCHANGED <<manifest, errors, plan, title_to_task_id, project_id, report, mainVars>>

\* the loop over a plan without steps: the empty results are returned
ExecNoSteps ==
    /\ pc = "executing"
    /\ plan.steps = <<>>
    /\ pc' = "executed"
    /\ UNCHANGED <<manifest, errors, plan, execVars, project_id, report, mainVars>>

----------------------------------------------------------------------------
(* The manifests validate_manifest and plan_execution are applied to *)

Titles == {"A", "B"}

\* a task's title: declared or not
TitleChoices == {EmptyDict} \cup {[k \in {"title"} |-> Str(t)] : t \in Titles}

\* a task's other declared fields
FieldChoices ==
    {EmptyDict,
     [executor |-> Str("codex"), priority |-> Str("High"),
      description |-> Str("d"), tags |-> List(<<Str("feature")>>),
      repo |-> Str("r2"), base_branch |-> Str("dev")],
     [executor |-> Str("bad-bot"), priority |-> Str("Critical")],
     [executor |-> List(<<Str("codex")>>)]}

\* a subtask entry: a bare title, a record with a title, a record without
SubEntries == {Str("S"), Dict([title |-> Str("T")]), Dict(EmptyDict)}

SeqsUpTo(S, n) == UNION {[1..k -> S] : k \in 0..n}

\* a task's subtasks: not declared, a number, or a list of 1 to n entries
SubtaskChoices(n) ==
    {EmptyDict, [k \in {"subtasks"} |-> Num(0)]}
    \cup {[k \in {"subtasks"} |-> List(q)] : q \in SeqsUpTo(SubEntries, n) \ {<<>>}}

\* the task records with at most n subtasks
TaskDecls(n) ==
    {Dict(t @@ f @@ s) : t \in TitleChoices, f \in FieldChoices, s \in SubtaskChoices(n)}

\* the number of entries of a task's subtask list
NSubs(task) ==
    LET subs == DictGet(task.dict, "subtasks", List(<<>>))
    IN  IF IsList(subs) THEN Len(subs.list) ELSE 0

RECURSIVE SumSubs(_, _)
\* the number of subtask entries of tasks[1..k]
SumSubs(tasks, k) == IF k = 0 THEN 0 ELSE SumSubs(tasks, k - 1) + NSubs(tasks[k])

\* the task lists of size (2 * tasks + subtasks) at most n
TaskLists(n) ==
    UNION {{q \in [1..k -> TaskDecls(n - 2 * k)] : 2 * k + SumSubs(q, k) <= n} :
            k \in 0..(n \div 2)}

\* the value under "tasks": absent, not a list, or a list of task records
TasksChoices(n) ==
    {EmptyDict, [k \in {"tasks"} |-> Num(0)], [k \in {"tasks"} |-> List(<<Str("x")>>)]}
    \cup {[k \in {"tasks"} |-> List(q)] : q \in TaskLists(n)}

TopChoices ==
    {EmptyDict, [version |-> Str("1.0.0")], [project |-> Str("P")],
     [version |-> Str("1.0.0"), project |-> Str("P")],
     [version |-> Str("1.0.0"), project |-> Str("P"),
      defaults |-> Dict([executor |-> Str("gemini"), repo |-> Str("r1")])],
     [version |-> Str("1.0.0"), project |-> Str("P"), defaults |-> Str("x")],
     [version |-> Str("1.0.0"), project |-> Str("")]}

Manifests(n) == {t @@ k : t \in TopChoices, k \in TasksChoices(n)}

----------------------------------------------------------------------------
(* State *)

NoPlan ==
    [steps |-> <<>>,
     summary |-> [total_tasks |-> 0, total_subtasks |-> 0, total_workspaces |-> 0]]

NoReport == [built |-> FALSE]

\* execute_plan called directly, without the entrypoint: no command line
NoInputs == [argc |-> 0, task_data |-> EmptyDict]

\* the process is still running
NotExited == "running"

NewClient == [process |-> "None", initialized |-> FALSE, next_id |-> 1]

\* everything but the manifest, before anything has run
Fresh ==
    /\ pc = "start"
    /\ errors = <<>>
    /\ plan = NoPlan
    /\ step_i = 0
    /\ results = <<>>
    /\ title_to_task_id = EmptyDict
    /\ calls = <<>>
    /\ outcomes = <<>>
    /\ client = NewClient
    /\ wire = <<>>
    /\ project_id = Str("proj-1")
    /\ report = NoReport
    /\ inputs = NoInputs
    /\ exit_code = NotExited

----------------------------------------------------------------------------
(* Specification of the pure functions: a caller validates a manifest and  *)
(* plans it (the tests also plan without validating).                      *)

InitPlan ==
    /\ manifest \in Manifests(MaxSize)
    /\ Fresh

Validate ==
    /\ pc = "start"
    /\ ~ValidateRaises(manifest)
    /\ \E order \in KeyOrders : errors' = validate_manifest(manifest, order)
    /\ pc' = "validated"
    /\ UNCHANGED <<manifest, plan, execVars, project_id, report, mainVars>>

\* validate_manifest raises TypeError
ValidateFails ==
    /\ pc = "start"
    /\ ValidateRaises(manifest)
    /\ pc' = "validate_raised"
    /\ UNCHANGED <<manifest, errors, plan, execVars, project_id, report, mainVars>>

Plan ==
    /\ pc \in {"start", "validated"}
    /\ ~PlanRaises(manifest)
    /\ plan' = plan_execution(manifest)
    /\ pc' = "planned"
    /\ UNCHANGED <<manifest, errors, execVars, project_id, report, mainVars>>

PlanFails ==
    /\ pc \in {"start", "validated"}
    /\ PlanRaises(manifest)
    /\ pc' = "plan_raised"
    /\ UNCHANGED <<manifest, errors, plan, execVars, project_id, report, mainVars>>

NextPlan == Validate \/ ValidateFails \/ Plan \/ PlanFails

SpecPlan == InitPlan /\ [][NextPlan]_vars

----------------------------------------------------------------------------
(* Specification of execute_plan: a caller plans a manifest and executes   *)
(* the plan on a new client, as the tests and the entrypoint do.           *)

\* a task's subtasks, for the executions: not declared, or up to n bare titles
ExecSubtaskChoices(n) ==
    {EmptyDict}
    \cup {[k \in {"subtasks"} |-> List(q)] :
            q \in SeqsUpTo({Str(t) : t \in Titles}, n) \ {<<>>}}

ExecTaskDecls(n) ==
    {Dict(t @@ s) : t \in TitleChoices \ {EmptyDict}, s \in ExecSubtaskChoices(n)}

\* the task lists whose plan has at most n steps
ExecTaskLists(n) ==
    UNION {{q \in [1..k -> ExecTaskDecls(n - 2 * k)] : 2 * k + SumSubs(q, k) <= n} :
            k \in 0..(n \div 2)}

\* the manifests executed; nothing in the code reads what a title says, so
\* the first task is the one titled "A"
ExecManifests(n) ==
    {[version |-> Str("1.0.0"), project |-> Str("P"), tasks |-> List(q)] :
        q \in {l \in ExecTaskLists(n) : Len(l) > 0 => l[1].dict["title"] = Str("A")}}

Init ==
    /\ manifest \in ExecManifests(MaxSteps)
    /\ plan = plan_execution(manifest)
    /\ pc = "executing"
    /\ errors = <<>>
    /\ step_i = 1
    /\ results = <<>>
    /\ title_to_task_id = EmptyDict
    /\ calls = <<>>
    /\ outcomes = <<>>
    /\ client = NewClient
    /\ wire = <<>>
    /\ project_id = Str("proj-1")
    /\ report = NoReport
    /\ inputs = NoInputs
    /\ exit_code = NotExited

Next == ExecCreateTask \/ ExecStartWorkspace \/ ExecNoSteps

Spec == Init /\ [][Next]_vars

----------------------------------------------------------------------------
(* build_execution_report *)

CountStatus(rs, status) == Cardinality({i \in 1..Len(rs) : rs[i].status = status})

\* build_execution_report (executed_at, the time of the call, is left out)
build_execution_report(m, p, rs, project) ==
    [built |-> TRUE,
     project |-> DictGet(m, "project", Str("")),
     project_id |-> project,
     source |-> DictGet(m, "source", Dict(EmptyDict)),
     summary |->
        [total_steps |-> Len(rs),
         succeeded |-> CountStatus(rs, "success"),
         failed |-> CountStatus(rs, "error"),
         total_tasks |-> p.summary.total_tasks,
         total_workspaces |-> p.summary.total_workspaces],
     results |-> rs]

----------------------------------------------------------------------------
(* entrypoint.py: main *)

\* str(v) of a JSON string or boolean
PyStr(v) ==
    IF IsStr(v) THEN v.str
    ELSE IF DOMAIN v = {"bool"} THEN (IF v.bool THEN "True" ELSE "False")
    ELSE "?"

\* s.lower(), on the strings the task data holds under dry_run
Lower(s) ==
    IF s \in {"True", "TRUE"} THEN "true"
    ELSE IF s \in {"False", "FALSE"} THEN "false"
    ELSE s

\* str(task_data.get("dry_run", "false")).lower() == "true"
DryRun(task_data) == Lower(PyStr(DictGet(task_data, "dry_run", Str("false")))) = "true"

\* the manifest main builds from the task data
BuildManifest(task_data) ==
    LET task == DictGet(task_data, "task", Str(""))
        agent == DictGet(task_data, "agent", Str("claude-code"))
        repo_id == DictGet(task_data, "repo_id", Str(""))
        base_branch == DictGet(task_data, "base_branch", Str("main"))
    IN  [version |-> Str("1.0.0"),
         project |-> task,
         defaults |-> Dict([executor |-> agent, repo |-> repo_id,
                            base_branch |-> base_branch]),
         tasks |-> List(<<Dict([title |-> task, executor |-> agent])>>)]

\* the result main gives a step of the plan in a dry run
SkippedResult(step) == [action |-> step.action, title |-> step.title, status |-> "skipped"]

\* the task data of the input file
TaskDatas ==
    {p @@ t @@ a @@ r @@ d :
        p \in {EmptyDict, [project_id |-> Str("")], [project_id |-> Str("p1")]},
        t \in {EmptyDict, [task |-> Str("")], [task |-> Str("A")],
               [task |-> List(<<Str("A")>>)]},
        a \in {EmptyDict, [agent |-> Str("codex")], [agent |-> Str("bad-bot")],
               [agent |-> List(<<Str("codex")>>)]},
        r \in {EmptyDict, [repo_id |-> Str("r1")]},
        d \in {EmptyDict, [dry_run |-> Str("true")], [dry_run |-> Bool(TRUE)],
               [dry_run |-> Str("false")]}}

\* the process exits with `code`
Exit(code) ==
    /\ pc' = "exited"
    /\ exit_code' = code

\* lines 36-84: the arguments, the input file, project_id and task, the manifest
MainReadInput ==
    /\ pc = "main"
    /\ IF inputs.argc < 3
       THEN Exit(1) /\ UNCHANGED <<manifest, project_id>>
       ELSE IF ~Truthy(DictGet(inputs.task_data, "project_id", Str("")))
       THEN Exit(1) /\ UNCHANGED <<manifest, project_id>>
       ELSE IF ~Truthy(DictGet(inputs.task_data, "task", Str("")))
       THEN Exit(1) /\ UNCHANGED <<manifest, project_id>>
       ELSE /\ manifest' = BuildManifest(inputs.task_data)
            /\ project_id' = inputs.task_data["project_id"]
            /\ pc' = "main_validate"
            /\ UNCHANGED exit_code
    /\ UNCHANGED <<errors, plan, execVars, report, inputs>>

\* faulty variant of MainValidate: the errors are printed and the run goes on
MainValidate_IgnoresErrors ==
    /\ pc = "main_validate"
    /\ IF ValidateRaises(manifest)
       THEN Exit(1) /\ UNCHANGED errors
       ELSE /\ \E order \in KeyOrders : errors' = validate_manifest(manifest, order)
            /\ pc' = "main_plan"
            /\ UNCHANGED exit_code
    /\ UNCHANGED <<manifest, plan, execVars, project_id, report, inputs>>

\* lines 86-91: validate_manifest, and sys.exit(1) on errors (an exception
\* validate_manifest raises is not caught: the interpreter exits with code 1)
MainValidate ==
    /\ pc = "main_validate"
    /\ IF ValidateRaises(manifest)
       THEN Exit(1) /\ UNCHANGED errors
       ELSE \E order \in KeyOrders :
                /\ errors' = validate_manifest(manifest, order)
                /\ IF errors' # <<>>
                   THEN Exit(1)
                   ELSE pc' = "main_plan" /\ UNCHANGED exit_code
    /\ UNCHANGED <<manifest, plan, execVars, project_id, report, inputs>>

\* faulty variant of MainPlan: the dry_run flag is not consulted
MainPlan_IgnoresDryRun ==
    /\ pc = "main_plan"
    /\ plan' = plan_execution(manifest)
    /\ pc' = "main_client"
    /\ UNCHANGED <<manifest, errors, execVars, project_id, report, mainVars>>

\* lines 93-97: plan_execution
MainPlan ==
    /\ pc = "main_plan"
    /\ plan' = plan_execution(manifest)
    /\ pc' = IF DryRun(inputs.task_data) THEN "main_dry_run" ELSE "main_client"
    /\ UNCHANGED <<manifest, errors, execVars, project_id, report, mainVars>>

\* lines 99-102: the results of a dry run
MainDryRun ==
    /\ pc = "main_dry_run"
    /\ results' = [i \in 1..Len(plan.steps) |-> SkippedResult(plan.steps[i])]
    /\ pc' = "main_report"
    /\ UNCHANGED <<manifest, errors, plan, step_i, title_to_task_id, calls,
                   outcomes, client, wire, project_id, report, mainVars>>

\* lines 104-106: a new client, and execute_plan entered
MainNewClient ==
    /\ pc = "main_client"
    /\ client' = NewClient
    /\ step_i' = 1
    /\ results' = <<>>
    /\ title_to_task_id' = EmptyDict
    /\ pc' = "executing"
    /\ UNCHANGED <<manifest, errors, plan, calls, outcomes, wire, project_id, report,
                   mainVars>>

\* faulty variant of MainClose: client.close() follows execute_plan without a
\* finally clause
MainClose_NoFinally ==
    /\ pc \in {"executed", "execute_raised"}
    /\ IF pc = "executed"
       THEN /\ client' = CloseClient(client)
            /\ wire' = Append(wire, Closed(client))
            /\ pc' = "main_report"
            /\ UNCHANGED exit_code
       ELSE /\ Exit(1)
            /\ UNCHANGED <<client, wire>>
    /\ UNCHANGED <<manifest, errors, plan, step_i, results, title_to_task_id,
                   calls, outcomes, project_id, report, inputs>>

\* lines 105-108: execute_plan returned or raised, and the finally clause
\* closes the client; an exception execute_plan raised is not caught, and the
\* interpreter exits with code 1
MainClose ==
    /\ pc \in {"executed", "execute_raised"}
    /\ client' = CloseClient(client)
    /\ wire' = Append(wire, Closed(client))
    /\ IF pc = "executed"
       THEN pc' = "main_report" /\ UNCHANGED exit_code
       ELSE Exit(1)
    /\ UNCHANGED <<manifest, errors, plan, step_i, results, title_to_task_id,
                   calls, outcomes, project_id, report, inputs>>

\* line 110: build_execution_report
MainReport ==
    /\ pc = "main_report"
    /\ report' = build_execution_report(manifest, plan, results, project_id)
    /\ pc' = "main_write"
    /\ UNCHANGED <<manifest, errors, plan, execVars, project_id, mainVars>>

\* lines 111-138: the report files and output.json are written and main
\* returns; task.replace of line 111 raises AttributeError on a task that is
\* not a string, and the interpreter exits with code 1
MainWrite ==
    /\ pc = "main_write"
    /\ IF IsStr(inputs.task_data["task"]) THEN Exit(0) ELSE Exit(1)
    /\ UNCHANGED <<manifest, errors, plan, execVars, project_id, report, inputs>>

InitMain ==
    /\ inputs \in [argc : {2, 3}, task_data : TaskDatas]
    /\ pc = "main"
    /\ manifest = EmptyDict
    /\ errors = <<>>
    /\ plan = NoPlan
    /\ step_i = 0
    /\ results = <<>>
    /\ title_to_task_id = EmptyDict
    /\ calls = <<>>
    /\ outcomes = <<>>
    /\ client = NewClient
    /\ wire = <<>>
    /\ project_id = Str("")
    /\ report = NoReport
    /\ exit_code = NotExited

NextMain ==
    \/ MainReadInput
    \/ MainValidate
    \/ MainPlan
    \/ MainDryRun
    \/ MainNewClient
    \/ ExecCreateTask
    \/ ExecStartWorkspace
    \/ MainClose
    \/ MainReport
    \/ MainWrite

SpecMain == InitMain /\ [][NextMain]_vars

----------------------------------------------------------------------------
(* Specification of VKMcpClient used directly: a caller issues operations on *)
(* one client and closes it, in any order.                                  *)

\* what a caller keeps of one operation: whether it raised, and the error or
\* the value returned
Returned(r) ==
    IF r.raised THEN [raised |-> TRUE, error |-> r.error]
    ELSE [raised |-> FALSE, value |-> r.value]

\* client.create_task(...) called by the caller
ClientCreateTask ==
    /\ pc = "client"
    /\ step_i < MaxOps
    /\ \E env \in Behaviours(client, Len(calls) + 1) :
        LET r == create_task(client, project_id, Str("A"), Str(""), env)
        IN  /\ calls' = Append(calls, [method |-> "create_task", at |-> Len(wire)])
            /\ outcomes' = <<env>>
            /\ client' = r.client
            /\ wire' = wire \o r.sent
            /\ results' = Append(results, Returned(r))
    /\ step_i' = step_i + 1
    /\ UNCHANGED <<pc, manifest, errors, plan, title_to_task_id, project_id, report,
                   mainVars>>

\* client.start_workspace(...) called by the caller
ClientStartWorkspace ==
    /\ pc = "client"
    /\ step_i < MaxOps
    /\ \E env \in Behaviours(client, Len(calls) + 1) :
        LET r == start_workspace(client, Str(""), Str("A"), Str("codex"),
                                 Str(""), Str("main"), env)
        IN  /\ calls' = Append(calls, [method |-> "start_workspace", at |-> Len(wire)])
            /\ outcomes' = <<env>>
            /\ client' = r.client
            /\ wire' = wire \o r.sent
            /\ results' = Append(results, Returned(r))
    /\ step_i' = step_i + 1
    /\ UNCHANGED <<pc, manifest, errors, plan, title_to_task_id, project_id, report,
                   mainVars>>

\* client.close() called by the caller
ClientClose ==
    /\ pc = "client"
    /\ step_i < MaxOps
    /\ client' = CloseClient(client)
    /\ wire' = Append(wire, Closed(client))
    /\ step_i' = step_i + 1
    /\ UNCHANGED <<pc, manifest, errors, plan, results, title_to_task_id, calls,
                   outcomes, project_id, report, mainVars>>

InitClient ==
    /\ pc = "client"
    /\ manifest = EmptyDict
    /\ errors = <<>>
    /\ plan = NoPlan
    /\ step_i = 0
    /\ results = <<>>
    /\ title_to_task_id = EmptyDict
    /\ calls = <<>>
    /\ outcomes = <<>>
    /\ client = NewClient
    /\ wire = <<>>
    /\ project_id = Str("proj-1")
    /\ report = NoReport
    /\ inputs = NoInputs
    /\ exit_code = NotExited

NextClient == ClientCreateTask \/ ClientStartWorkspace \/ ClientClose

SpecClient == InitClient /\ [][NextClient]_vars

----------------------------------------------------------------------------
(* Claims about plan_execution and validate_manifest, checked under SpecPlan *)

\* the list under "tasks" ([] when the key is absent)
ManifestTasks(m) == DictGet(m, "tasks", List(<<>>)).list

RECURSIVE Offset(_, _)
\* the number of steps that belong to the tasks before task k
Offset(tasks, k) ==
    IF k = 1 THEN 0 ELSE Offset(tasks, k - 1) + 2 + NSubs(tasks[k - 1])

CountSteps(steps, action) ==
    Cardinality({s \in 1..Len(steps) : steps[s].action = action})

\* C7: in every plan, tasks appear in manifest order; a task's CreateTask step
\* comes immediately before its StartWorkspace step, which comes immediately
\* before the CreateTask steps of its subtasks in declared order, and all of
\* them come before the first step of the next task.
C7_StepOrder ==
    pc = "planned" =>
        LET tasks == ManifestTasks(manifest)
            steps == plan.steps
        IN  /\ Len(steps) = Offset(tasks, Len(tasks) + 1)
            /\ \A k \in 1..Len(tasks) :
                LET at == Offset(tasks, k)
                    title == tasks[k].dict["title"]
                    subs == DictGet(tasks[k].dict, "subtasks", List(<<>>)).list
                IN  /\ steps[at + 1].action = "create_task"
                    /\ steps[at + 1].title = title
                    /\ steps[at + 1].parent_title = None
                    /\ steps[at + 2].action = "start_workspace"
                    /\ steps[at + 2].title = title
                    /\ \A s \in 1..Len(subs) :
                        /\ steps[at + 2 + s].action = "create_task"
                        /\ steps[at + 2 + s].title = SubTitle(subs[s])
                        /\ steps[at + 2 + s].parent_title = title

\* C7 witness: a plan of two tasks with different titles, the first with a subtask
C7_Witness ==
    /\ pc = "planned"
    /\ Len(ManifestTasks(manifest)) = 2
    /\ NSubs(ManifestTasks(manifest)[1]) = 1
    /\ ManifestTasks(manifest)[1].dict["title"] # ManifestTasks(manifest)[2].dict["title"]
    /\ Len(plan.steps) = 5

\* C8: for a manifest with N tasks and S subtask entries the plan has 2N + S
\* steps, N + S of them CreateTask and N StartWorkspace, and the summary says
\* total_tasks = N, total_workspaces = N, total_subtasks = S; no tasks, no steps.
C8_StepCount ==
    pc = "planned" =>
        LET tasks == ManifestTasks(manifest)
            N == Len(tasks)
            S == SumSubs(tasks, N)
        IN  /\ Len(plan.steps) = 2 * N + S
            /\ CountSteps(plan.steps, "create_task") = N + S
            /\ CountSteps(plan.steps, "start_workspace") = N
            /\ plan.summary.total_tasks = N
            /\ plan.summary.total_workspaces = N
            /\ plan.summary.total_subtasks = S
            /\ (N = 0 => plan.steps = <<>>)

\* C8 witness: a plan for one task with three subtask entries
C8_Witness ==
    /\ pc = "planned"
    /\ Len(ManifestTasks(manifest)) = 1
    /\ NSubs(ManifestTasks(manifest)[1]) = 3
    /\ Len(plan.steps) = 5
    /\ plan.summary.total_subtasks = 3

\* the valid manifests: version, project and tasks present; tasks a non-empty
\* list of records, each with a title; a declared executor is supported and a
\* declared priority is one of the four levels
ValidManifest(m) ==
    /\ REQUIRED_MANIFEST_KEYS \subseteq DOMAIN m
    /\ IsList(m["tasks"])
    /\ Len(m["tasks"].list) > 0
    /\ \A k \in 1..Len(m["tasks"].list) :
        LET task == m["tasks"].list[k]
        IN  /\ IsDict(task)
            /\ "title" \in DOMAIN task.dict
            /\ "executor" \in DOMAIN task.dict =>
                    /\ IsStr(task.dict["executor"])
                    /\ task.dict["executor"].str \in VALID_EXECUTORS
            /\ "priority" \in DOMAIN task.dict =>
                    /\ IsStr(task.dict["priority"])
                    /\ task.dict["priority"].str \in VALID_PRIORITIES

\* C10: validate returns the empty list for every valid manifest, and for a
\* manifest that lacks version, project or tasks the list it returns holds a
\* message naming each missing key.
C10_ValidateContract ==
    pc = "validated" =>
        /\ ValidManifest(manifest) => errors = <<>>
        /\ \A key \in REQUIRED_MANIFEST_KEYS :
            key \notin DOMAIN manifest =>
                \E j \in 1..Len(errors) :
                    errors[j] = [msg |-> "Missing required key", key |-> key]

\* C10 witness: a valid manifest whose task declares an executor and a
\* priority has been validated
C10_Witness ==
    /\ pc = "validated"
    /\ ValidManifest(manifest)
    /\ \E k \in 1..Len(manifest["tasks"].list) :
        {"executor", "priority"} \subseteq DOMAIN manifest["tasks"].list[k].dict
    /\ errors = <<>>

\* a manifest that lacks two of the required keys has been validated
C10_MissingKeysReached ==
    /\ pc = "validated"
    /\ Cardinality(REQUIRED_MANIFEST_KEYS \ DOMAIN manifest) = 2
    /\ Len(errors) >= 2

\* C11: validate never raises: for every manifest value, malformed ones
\* included (wrong types for tasks, for a task entry, for a task's executor or
\* priority), it returns a list of messages.
C11_ValidateNeverRaises == pc # "validate_raised"

\* C12: plan is total on validated input: when validate returned the empty
\* list for a manifest, whatever the shape of its defaults and subtasks,
\* plan returns a Plan for it and does not fail.
C12_PlanTotalOnValidated ==
    [][(pc = "validated" /\ errors = <<>>) => pc' # "plan_raised"]_vars

\* the value a StartWorkspace step gets for `key`: the task's own when the
\* task declares it, else the manifest default when declared, else `fallback`
Resolved(task, defaults, key, fallback) ==
    IF key \in DOMAIN task THEN task[key]
    ELSE IF key \in DOMAIN defaults THEN defaults[key]
    ELSE fallback

\* the defaults of the manifest ({} when the key is absent)
ManifestDefaults(m) == DictGet(m, "defaults", Dict(EmptyDict)).dict

\* C18: for every task, each of the StartWorkspace step's executor, repo and
\* base_branch is resolved on its own: the task's value if the task declares
\* it, else the manifest default if declared, else the hardcoded fallback
\* ("claude-code", empty repo, "main").
C18_FallbackChain ==
    pc = "planned" =>
        LET tasks == ManifestTasks(manifest)
            defaults == ManifestDefaults(manifest)
        IN  \A k \in 1..Len(tasks) :
                LET step == plan.steps[Offset(tasks, k) + 2]
                    task == tasks[k].dict
                IN  /\ step.action = "start_workspace"
                    /\ step.executor = Resolved(task, defaults, "executor", Str("claude-code"))
                    /\ step.repo = Resolved(task, defaults, "repo", Str(""))
                    /\ step.base_branch = Resolved(task, defaults, "base_branch", Str("main"))

\* C18 witness: a plan for two tasks under defaults that declare an executor
\* and a repo; one task declares all three values itself, the other none, and
\* gets the default executor and repo and the hardcoded base branch
C18_Witness ==
    /\ pc = "planned"
    /\ DOMAIN ManifestDefaults(manifest) = {"executor", "repo"}
    /\ \E j, k \in 1..Len(ManifestTasks(manifest)) :
        LET tasks == ManifestTasks(manifest)
            own == plan.steps[Offset(tasks, j) + 2]
            none == plan.steps[Offset(tasks, k) + 2]
        IN  /\ {"executor", "repo", "base_branch"} \subseteq DOMAIN tasks[j].dict
            /\ own.executor = Str("codex") /\ own.repo = Str("r2")
            /\ own.base_branch = Str("dev")
            /\ {"executor", "repo", "base_branch"} \cap DOMAIN tasks[k].dict = {}
            /\ none.executor = Str("gemini") /\ none.repo = Str("r1")
            /\ none.base_branch = Str("main")

\* how often the list validate returned holds the message `m`
CountOf(m) == Cardinality({j \in 1..Len(errors) : errors[j] = m})

\* the task declares an executor that is not a supported one
InvalidExecutor(task) ==
    /\ "executor" \in DOMAIN task
    /\ ~(IsStr(task["executor"]) /\ task["executor"].str \in VALID_EXECUTORS)

\* the task declares a priority that is not one of the four levels
InvalidPriority(task) ==
    /\ "priority" \in DOMAIN task
    /\ ~(IsStr(task["priority"]) /\ task["priority"].str \in VALID_PRIORITIES)

\* the number of violations of task entry `task`
Violations(task) ==
    IF ~IsDict(task) THEN 1
    ELSE (IF "title" \notin DOMAIN task.dict THEN 1 ELSE 0)
         + (IF InvalidExecutor(task.dict) THEN 1 ELSE 0)
         + (IF InvalidPriority(task.dict) THEN 1 ELSE 0)

RECURSIVE SumViolations(_, _)
\* the number of violations of tasks[1..k]
SumViolations(tasks, k) ==
    IF k = 0 THEN 0 ELSE SumViolations(tasks, k - 1) + Violations(tasks[k])

\* C19: validate accumulates all violations without short-circuiting: the
\* list it returns holds one message for each missing top-level key and, for
\* each task, one for a missing title, one for an invalid executor and one for
\* an invalid priority, and nothing else.
C19_AllViolationsReported ==
    pc = "validated" =>
        /\ \A key \in REQUIRED_MANIFEST_KEYS :
            CountOf([msg |-> "Missing required key", key |-> key])
                = (IF key \in DOMAIN manifest THEN 0 ELSE 1)
        /\ ("tasks" \in DOMAIN manifest /\ IsList(manifest["tasks"])
                /\ Len(manifest["tasks"].list) > 0) =>
            LET tasks == manifest["tasks"].list
            IN  /\ \A k \in 1..Len(tasks) :
                    IF ~IsDict(tasks[k])
                    THEN CountOf([msg |-> "Task is not a dict", index |-> k - 1]) = 1
                    ELSE /\ CountOf([msg |-> "Task missing required key",
                                     index |-> k - 1, key |-> "title"])
                                = (IF "title" \in DOMAIN tasks[k].dict THEN 0 ELSE 1)
                         /\ InvalidExecutor(tasks[k].dict) =>
                                CountOf([msg |-> "Task has invalid executor",
                                         index |-> k - 1,
                                         value |-> tasks[k].dict["executor"],
                                         allowed |-> VALID_EXECUTORS]) = 1
                         /\ InvalidPriority(tasks[k].dict) =>
                                CountOf([msg |-> "Task has invalid priority",
                                         index |-> k - 1,
                                         value |-> tasks[k].dict["priority"],
                                         allowed |-> VALID_PRIORITIES]) = 1
                /\ Len(errors) = Cardinality(REQUIRED_MANIFEST_KEYS \ DOMAIN manifest)
                                    + SumViolations(tasks, Len(tasks))

\* C19 witness: a manifest without a project, whose first task lacks a title
\* and declares an unsupported executor and priority and whose second task
\* lacks a title too, was validated: five messages
C19_Witness ==
    /\ pc = "validated"
    /\ "project" \notin DOMAIN manifest
    /\ "tasks" \in DOMAIN manifest
    /\ IsList(manifest["tasks"])
    /\ Len(manifest["tasks"].list) = 2
    /\ Violations(manifest["tasks"].list[1]) = 3
    /\ Violations(manifest["tasks"].list[2]) = 1
    /\ Len(errors) = 5

\* the positions of the plan whose step has this parent_title
StepsWithParent(parent) ==
    {s \in 1..Len(plan.steps) :
        plan.steps[s].action = "create_task" /\ plan.steps[s].parent_title = parent}

\* C21: for every subtask of every task, plan emits exactly one CreateTask step
\* whose parent_title is the parent task's title, whose priority and tags are
\* the parent's (Medium and no tags when the parent declares none) and whose
\* description refers back to the parent's title; no StartWorkspace step is
\* emitted for a subtask, and the CreateTask step of a task has parent_title null.
C21_SubtasksInheritFromParent ==
    pc = "planned" =>
        LET tasks == ManifestTasks(manifest)
        IN  /\ \A k \in 1..Len(tasks) :
                LET task == tasks[k].dict
                    at == Offset(tasks, k)
                IN  /\ plan.steps[at + 1].action = "create_task"
                    /\ plan.steps[at + 1].parent_title = None
                    /\ \A s \in 1..NSubs(tasks[k]) :
                        LET step == plan.steps[at + 2 + s]
                        IN  /\ step.action = "create_task"
                            /\ step.parent_title = task["title"]
                            /\ step.priority =
                                    (IF "priority" \in DOMAIN task
                                     THEN task["priority"] ELSE Str("Medium"))
                            /\ step.tags =
                                    (IF "tags" \in DOMAIN task
                                     THEN task["tags"] ELSE List(<<>>))
                            /\ step.description = [fstr |-> <<"Subtask of: ", task["title"]>>]
            /\ Cardinality(StepsWithParent(None)) = Len(tasks)
            /\ Cardinality({s \in 1..Len(plan.steps) :
                                plan.steps[s].action = "create_task"})
                    = Len(tasks) + SumSubs(tasks, Len(tasks))
            /\ Cardinality({s \in 1..Len(plan.steps) :
                                plan.steps[s].action = "start_workspace"}) = Len(tasks)

\* C21 witness: a plan for a task that declares a priority and tags and has
\* two subtasks, the second one a record
C21_Witness ==
    /\ pc = "planned"
    /\ Len(ManifestTasks(manifest)) = 1
    /\ NSubs(ManifestTasks(manifest)[1]) = 2
    /\ IsDict(ManifestTasks(manifest)[1].dict["subtasks"].list[2])
    /\ Len(plan.steps) = 4
    /\ plan.steps[3].priority = Str("High")
    /\ plan.steps[3].parent_title = plan.steps[1].title
    /\ plan.steps[4].tags = List(<<Str("feature")>>)

\* a string that is not empty
NonEmptyStr(v) == IsStr(v) /\ v.str # ""

\* the Manifest invariant of the data model: a non-empty project name, a
\* non-empty task sequence, every task with a title that is a non-empty string
ManifestInvariant(m) ==
    /\ "project" \in DOMAIN m
    /\ NonEmptyStr(m["project"])
    /\ "tasks" \in DOMAIN m
    /\ IsList(m["tasks"])
    /\ Len(m["tasks"].list) > 0
    /\ \A k \in 1..Len(m["tasks"].list) :
        /\ IsDict(m["tasks"].list[k])
        /\ "title" \in DOMAIN m["tasks"].list[k].dict
        /\ NonEmptyStr(m["tasks"].list[k].dict["title"])

\* C22: every manifest for which validate returns no errors satisfies the
\* Manifest invariant.
C22_ValidatedManifestInvariant ==
    (pc = "validated" /\ errors = <<>>) => ManifestInvariant(manifest)

----------------------------------------------------------------------------
(* Claims about execute_plan, checked under Spec *)

\* the channel behaviours after which _call_tool should report a failure:
\* the service was not reached, or no usable response was obtained
ChannelFailure(env) ==
    \/ env.kind \in {"spawn_fails", "init_write_fails", "notif_write_fails",
                     "request_fails", "eof", "bad_json", "rpc_error"}
    \/ env.kind = "text" /\ ~IsDict(env.payload)

\* the channel behaviours after which the client method returns a record
ChannelReturnsRecord(env) ==
    \/ env.kind \in {"eof", "result"}
    \/ env.kind = "text" /\ IsDict(env.payload)

\* the identifier a create_task response carries
ReturnedId(resp) ==
    IF "issue_id" \in DOMAIN resp.dict THEN resp.dict["issue_id"]
    ELSE IF "id" \in DOMAIN resp.dict THEN resp.dict["id"]
    ELSE Str("")

\* the calls issued for step j
CallsFor(j) == {k \in 1..Len(calls) : calls[k].step = j}

\* the CreateTask steps before step j with the title T that got a Success result
SucceededCreates(j, T) ==
    {i \in 1..(j - 1) :
        /\ i <= Len(results)
        /\ plan.steps[i].action = "create_task"
        /\ plan.steps[i].title = T
        /\ results[i].status = "success"}

SetMax(S) == CHOOSE x \in S : \A y \in S : y <= x

SetMin(S) == CHOOSE x \in S : \A y \in S : x <= y

\* the identifier returned by the most recent CreateTask step before step j
\* with title T that succeeded, the empty string when there is none
LatestId(j, T) ==
    IF SucceededCreates(j, T) = {} THEN Str("")
    ELSE ReturnedId(results[SetMax(SucceededCreates(j, T))].detail)

\* the CreateTask steps that got an Error result
FailedCreates ==
    {i \in 1..Len(results) :
        plan.steps[i].action = "create_task" /\ results[i].status = "error"}

\* the StartWorkspace steps after step i with the title of step i
WorkspacesAfter(i) ==
    {j \in (i + 1)..Len(plan.steps) :
        /\ plan.steps[j].action = "start_workspace"
        /\ plan.steps[j].title = plan.steps[i].title}

\* C1: execute issues exactly one client call per plan step, in plan order and
\* one at a time (call k is issued when the k - 1 calls before it have come
\* back), and whatever failed, every step has been attempted when execute returns.
C1_OneCallPerStep ==
    /\ \A k \in 1..Len(calls) :
        /\ calls[k].step = k
        /\ calls[k].returned = k - 1
        /\ calls[k].method = plan.steps[k].action
        /\ calls[k].title = plan.steps[k].title
    /\ Len(calls) <= Len(plan.steps)
    /\ Len(calls) = step_i - 1
    /\ pc = "executed" => Len(calls) = Len(plan.steps)

\* C1 witness: execute returned from a plan of four steps whose first two
\* calls failed and whose last call was still made
C1_Witness ==
    /\ pc = "executed"
    /\ Len(plan.steps) = 4
    /\ results[1].status = "error"
    /\ results[2].status = "error"
    /\ Len(calls) = 4
    /\ calls[4].step = 4

\* C2: execute returns one result per plan step, in plan order: as many
\* results as steps, result i carrying the action and the title of step i.
C2_ResultPerStep ==
    /\ Len(results) <= Len(plan.steps)
    /\ \A i \in 1..Len(results) :
        /\ results[i].action = plan.steps[i].action
        /\ results[i].title = plan.steps[i].title
    /\ pc = "executed" => Len(results) = Len(plan.steps)

\* C2 witness: the results of a four-step plan with failures and successes
C2_Witness ==
    /\ pc = "executed"
    /\ Len(results) = 4
    /\ \E i, j \in 1..4 : results[i].status = "error" /\ results[j].status = "success"

\* C3 as stated: after a CreateTask step failed, the next StartWorkspace step
\* with its title is still attempted, and is called with the empty identifier.
C3_PairedWorkspaceGetsEmptyId ==
    \A i \in FailedCreates :
        WorkspacesAfter(i) # {} =>
            LET j == SetMin(WorkspacesAfter(i))
            IN  /\ pc = "executed" => CallsFor(j) # {}
                /\ \A k \in CallsFor(j) :
                    /\ calls[k].method = "start_workspace"
                    /\ calls[k].task_id = Str("")

\* C3 as amended: after a CreateTask step failed, the next StartWorkspace step
\* with its title is still attempted; it is called with the identifier
\* returned by the most recent CreateTask step of that title that succeeded
\* before it, and with the empty identifier when none did; and whether it
\* succeeds is decided by its own call alone.
C3_PairedWorkspaceStillAttempted ==
    \A i \in FailedCreates :
        WorkspacesAfter(i) # {} =>
            LET j == SetMin(WorkspacesAfter(i))
            IN  /\ pc = "executed" => CallsFor(j) # {}
                /\ \A k \in CallsFor(j) :
                    /\ calls[k].method = "start_workspace"
                    /\ calls[k].task_id = LatestId(j, plan.steps[j].title)
                    /\ SucceededCreates(j, plan.steps[j].title) = {}
                            => calls[k].task_id = Str("")
                /\ (Len(results) = j /\ Len(outcomes) = 1) =>
                    (results[j].status = "success" <=> ChannelReturnsRecord(outcomes[1]))

\* C3 witness: a CreateTask step failed, and the StartWorkspace step after it
\* was called with the empty identifier and succeeded
C3_Witness ==
    \E i \in FailedCreates :
        /\ WorkspacesAfter(i) # {}
        /\ LET j == SetMin(WorkspacesAfter(i))
           IN  /\ j <= Len(results)
               /\ CallsFor(j) # {}
               /\ \A k \in CallsFor(j) : calls[k].task_id = Str("")
               /\ results[j].status = "success"

\* C4: a call that did not reach the service, or got no usable response (an
\* error descriptor, a malformed response, no response at all), is recorded
\* as an Error result with a message for its step, never as a Success.
C4_FailuresAreErrors ==
    (Len(outcomes) = 1 /\ Len(results) >= 1 /\ ChannelFailure(outcomes[1])) =>
        /\ results[Len(results)].status = "error"
        /\ "error" \in DOMAIN results[Len(results)]

\* the title -> identifier table the results so far account for
TableOfResults ==
    LET n == Len(results) + 1
        titles == {plan.steps[i].title : i \in
                    {i \in 1..Len(results) :
                        /\ plan.steps[i].action = "create_task"
                        /\ results[i].status = "success"}}
    IN  [T \in titles |-> LatestId(n, T)]

\* C5: start_workspace is passed the identifier returned by the most recent
\* CreateTask step with the same title that succeeded earlier in the
\* execution (the last writer wins), the empty string when none succeeded;
\* and the table holds exactly what the succeeded CreateTask steps wrote, so a
\* failed one adds and changes nothing.
C5_TaskIdLookup ==
    /\ \A k \in 1..Len(calls) :
        calls[k].method = "start_workspace" =>
            calls[k].task_id = LatestId(calls[k].step, calls[k].title)
    /\ title_to_task_id = TableOfResults

\* C5 witness: two CreateTask steps with one title succeeded with different
\* identifiers, and the StartWorkspace step after them was passed the second
C5_Witness ==
    \E k \in 1..Len(calls) :
        /\ calls[k].method = "start_workspace"
        /\ Cardinality(SucceededCreates(calls[k].step, calls[k].title)) = 2
        /\ calls[k].task_id # Str("")
        /\ calls[k].task_id
             # results[SetMin(SucceededCreates(calls[k].step, calls[k].title))].task_id

\* a failed CreateTask step left the identifier of an earlier one in the table
C5_FailedCreateKeepsEntry ==
    \E i \in FailedCreates :
        /\ SucceededCreates(i, plan.steps[i].title) # {}
        /\ plan.steps[i].title \in DOMAIN title_to_task_id
        /\ title_to_task_id[plan.steps[i].title] # Str("")

\* the line `e` written to the server is a message with this method
IsSend(e, method) == e.ev = "send" /\ e.method = method

\* the positions of the wire log with an event of this kind
EventsOf(ev) == {k \in 1..Len(wire) : wire[k].ev = ev}

\* the positions of the wire log where a message with this method was written
SendsOf(method) == {k \in 1..Len(wire) : IsSend(wire[k], method)}

\* C15: no tools/call request is written to the channel before the initialize
\* request was written, a line was read back for it, and the initialized
\* notification was written, in that order.
C15_HandshakeBeforeOperations ==
    \A k \in SendsOf("tools/call") :
        \E i \in 1..(k - 1) :
            /\ i + 2 < k
            /\ IsSend(wire[i], "initialize")
            /\ wire[i + 1].ev = "recv"
            /\ IsSend(wire[i + 2], "notifications/initialized")

\* C15 witness: a handshake broke off at the notification, the next call ran
\* the handshake again, and only then a tools/call request went out
C15_Witness ==
    /\ Cardinality(SendsOf("initialize")) = 2
    /\ Cardinality(SendsOf("notifications/initialized")) = 1
    /\ Cardinality(SendsOf("tools/call")) >= 1

\* C16: the channel is opened lazily and the handshake occurs once per
\* execution: nothing is spawned or sent before the first remote operation,
\* and whatever steps or handshakes fail, the server process is spawned at
\* most once and the initialize request is sent at most once.
C16_HandshakeOnce ==
    /\ calls = <<>> => (wire = <<>> /\ client.process = "None")
    /\ Cardinality(EventsOf("spawn")) <= 1
    /\ Cardinality(SendsOf("initialize")) <= 1

----------------------------------------------------------------------------
(* Claims about the report, checked under SpecMain *)

\* C6: in every report build_report builds from results the tool produces,
\* those of a dry run included, succeeded + failed is the number of results,
\* and neither count is negative.
C6_ReportCountsAddUp ==
    report.built =>
        /\ report.summary.succeeded + report.summary.failed = Len(report.results)
        /\ report.summary.succeeded >= 0
        /\ report.summary.failed >= 0

\* the entrypoint created a client and entered execute_plan
ReachedExecution == step_i >= 1

\* C13: validation errors are fatal before any remote activity: when validate
\* returned at least one error, no plan is executed, the channel is never
\* opened, no remote call is issued, and the run ends with exit code 1.
C13_ValidationErrorsAreFatal ==
    errors # <<>> =>
        /\ pc = "exited"
        /\ exit_code = 1
        /\ ~ReachedExecution
        /\ results = <<>>
        /\ calls = <<>>
        /\ wire = <<>>
        /\ client = NewClient

\* C13 witness: the run of an input file that names an unsupported agent has
\* ended on the validation errors
C13_Witness ==
    /\ errors # <<>>
    /\ pc = "exited"
    /\ inputs.argc = 3
    /\ manifest["tasks"].list[1].dict["executor"] = Str("bad-bot")

\* C14: in every run that reaches execution the channel is closed exactly
\* once, after the last step that was attempted, on every exit path: all steps
\* succeeded, some or all failed, or an unexpected error ended execute early.
C14_ClosedExactlyOnce ==
    /\ ~ReachedExecution => EventsOf("close") = {}
    /\ pc \in {"executing", "executed", "execute_raised"} => EventsOf("close") = {}
    /\ (ReachedExecution /\ pc \in {"main_report", "main_write", "exited"}) =>
            /\ EventsOf("close") = {Len(wire)}
            /\ wire[Len(wire)].terminated <=> EventsOf("spawn") # {}
            /\ client.process = "None"

\* C14 witness: execute_plan raised after its first step had used the
\* channel, the server process was terminated, and the run has ended
C14_Witness ==
    /\ pc = "exited"
    /\ ReachedExecution
    /\ Len(results) < Len(plan.steps)
    /\ EventsOf("spawn") # {}
    /\ EventsOf("close") = {Len(wire)}
    /\ wire[Len(wire)].terminated

\* the channel behaviours in which the tools/call request is not written
NotSent(env) ==
    env.kind \in {"spawn_fails", "init_write_fails", "notif_write_fails", "request_fails"}

\* C17: start_workspace tolerates empty arguments: with an empty task
\* identifier the request carries no issue_id field, with an empty repo_id it
\* carries an empty repos list, and the request is still sent; otherwise it
\* carries the identifier and one binding of the repository and base branch.
C17_EmptyArgumentsTolerated ==
    (Len(calls) >= 1 /\ calls[Len(calls)].method = "start_workspace") =>
        LET c == calls[Len(calls)]
        IN  ~NotSent(outcomes[1]) =>
                /\ EventsOf("send") # {}
                /\ LET req == wire[SetMax(EventsOf("send"))]
                   IN  /\ req.method = "tools/call"
                       /\ req.name = "start_workspace_session"
                       /\ req.arguments.title = c.title
                       /\ ("issue_id" \in DOMAIN req.arguments) <=> (c.task_id # Str(""))
                       /\ c.task_id # Str("") => req.arguments.issue_id = c.task_id
                       /\ c.repo_id = Str("") => req.arguments.repos = List(<<>>)
                       /\ c.repo_id # Str("") =>
                            req.arguments.repos =
                                List(<<Dict([repo_id |-> c.repo_id,
                                             base_branch |-> c.base_branch])>>)

\* C17 witness: a workspace was started with an empty task identifier and an
\* empty repo_id, and the call succeeded
C17_Witness ==
    /\ Len(calls) = 2
    /\ Len(results) = 2
    /\ calls[2].method = "start_workspace"
    /\ calls[2].task_id = Str("")
    /\ calls[2].repo_id = Str("")
    /\ results[2].status = "success"
    /\ IsSend(wire[SetMax(EventsOf("send"))], "tools/call")

\* the run was given too few arguments, or an input file without a
\* project_id or without a task
ArgumentsMissing ==
    \/ inputs.argc < 3
    \/ ~Truthy(DictGet(inputs.task_data, "project_id", Str("")))
    \/ ~Truthy(DictGet(inputs.task_data, "task", Str("")))

\* validate_manifest did not accept the manifest
ValidationFailed == errors # <<>> \/ ValidateRaises(manifest)

\* C20: the run exits with code 1 when arguments are missing or the manifest
\* fails validation, and with code 0 in every other case, also when some or
\* all remote steps failed.
C20_ExitCodes ==
    pc = "exited" =>
        /\ exit_code \in {0, 1}
        /\ exit_code = 1 <=> (ArgumentsMissing \/ ValidationFailed)

\* the input file sets the dry_run flag to true (the JSON boolean or the string)
DryRunRequested ==
    /\ "dry_run" \in DOMAIN inputs.task_data
    /\ inputs.task_data["dry_run"] \in {Bool(TRUE), Str("true")}

\* C23: in a dry run no client is created, the channel is never opened and no
\* remote call is issued; the report still holds exactly one result per
\* planned step, in plan order, each with the status "skipped".
C23_DryRunTouchesNothing ==
    DryRunRequested =>
        /\ ~ReachedExecution
        /\ client = NewClient
        /\ wire = <<>>
        /\ calls = <<>>
        /\ (pc \in {"main_write", "exited"} /\ ~ArgumentsMissing /\ ~ValidationFailed)
            => report.built
        /\ report.built =>
            /\ Len(report.results) = Len(plan.steps)
            /\ \A i \in 1..Len(plan.steps) :
                report.results[i] = [action |-> plan.steps[i].action,
                                     title |-> plan.steps[i].title,
                                     status |-> "skipped"]

\* C23 witness: a dry run asked for with the JSON boolean has built its
\* report of two skipped steps
C23_Witness ==
    /\ inputs.argc = 3
    /\ "dry_run" \in DOMAIN inputs.task_data
    /\ inputs.task_data["dry_run"] = Bool(TRUE)
    /\ report.built
    /\ Len(report.results) = 2
    /\ report.results[1].status = "skipped"
    /\ report.results[2].status = "skipped"
    /\ report.results[2].action = "start_workspace"
    /\ wire = <<>>

----------------------------------------------------------------------------
(* Claims about the client, checked under SpecClient *)

\* the positions of the wire log where close() was called on a client whose
\* handshake had completed
ClosesAfterHandshake ==
    {k \in EventsOf("close") :
        \E i \in 1..(k - 1) : IsSend(wire[i], "notifications/initialized")}

\* the operations issued after position k of the wire log
CallsAfter(k) == {n \in 1..Len(calls) : calls[n].at >= k}

\* C24: once close() has been called on a client whose channel was
\* initialized, the channel is never opened again: every later operation on
\* the client fails with an error, no server process is spawned and no
\* request is sent.
C24_ClosedChannelStaysClosed ==
    \A k \in ClosesAfterHandshake :
        /\ \A j \in (k + 1)..Len(wire) : wire[j].ev = "close"
        /\ \A n \in CallsAfter(k) : results[n].raised
        /\ client.process = "None"

\* C24 witness: a client was initialized by a first operation and closed, and
\* two operations issued on it afterwards have failed
C24_Witness ==
    \E k \in ClosesAfterHandshake :
        /\ Cardinality(CallsAfter(k)) = 2
        /\ \A n \in CallsAfter(k) :
            results[n].raised /\ results[n].error = Str("AttributeError")
        /\ \E n \in 1..Len(calls) : calls[n].at < k /\ ~results[n].raised

====
